---- MODULE Spec2Model ----
(***************************************************************************)
(* Model of object_detection/utils/np_motion_util.py (Motion R-CNN):       *)
(* the pinhole projection primitives, dense_flow_from_motion, the          *)
(* detection/ground-truth matching loop of evaluate, and _motion_errors.   *)
(*                                                                         *)
(* Numbers.  numpy floats are modelled as extended rationals: a finite     *)
(* value is an exact reduced fraction n/d, and the IEEE specials NaN and   *)
(* +-Inf are kept, with the IEEE rules for them (x/0, 0/0, Inf-Inf,        *)
(* 0*Inf).  Rounding and the sign of zero are not modelled, so an equality *)
(* established here is an equality of the real-number results; in float64  *)
(* it holds up to rounding.                                                *)
(*                                                                         *)
(* Execution.  Every statement is run with its Python/numpy meaning; a     *)
(* statement that cannot execute (a name numpy does not define, an index   *)
(* out of range, a reshape that does not fit) raises where it stands.      *)
(* Line 138 is not valid Python, so the file as it stands cannot be        *)
(* imported; every other statement is given the meaning it has once that   *)
(* line parses.  Line 119 raises before line 138 is reached.               *)
(***************************************************************************)
EXTENDS Integers, Sequences, FiniteSets, TLC

\* ------------------------------------------------------------------------
\* Extended rationals (the model of a numpy float)
\* ------------------------------------------------------------------------

Abs(n) == IF n < 0 THEN -n ELSE n

Sign(n) == IF n < 0 THEN -1 ELSE IF n > 0 THEN 1 ELSE 0

RECURSIVE GCD(_, _)
GCD(a, b) == IF b = 0 THEN a ELSE GCD(b, a % b)

NaN == [k |-> "nan", n |-> 0, d |-> 1]

Inf(s) == [k |-> "inf", n |-> s, d |-> 1]

\* The finite value n/d (d # 0), reduced, with a positive denominator.
Fin(n, d) ==
    LET g == GCD(Abs(n), Abs(d))
        s == IF d < 0 THEN -1 ELSE 1
    IN  [k |-> "fin", n |-> (s * n) \div g, d |-> (s * d) \div g]

Num(n) == Fin(n, 1)

IsZero(a) == a.k = "fin" /\ a.n = 0

FNeg(a) ==
    CASE a.k = "nan" -> NaN
      [] a.k = "inf" -> Inf(-a.n)
      [] OTHER       -> Fin(-a.n, a.d)

FAdd(a, b) ==
    CASE a.k = "nan" \/ b.k = "nan"   -> NaN
      [] a.k = "inf" /\ b.k = "inf"   -> IF a.n = b.n THEN a ELSE NaN
      [] a.k = "inf"                  -> a
      [] b.k = "inf"                  -> b
      [] OTHER                        -> Fin(a.n * b.d + b.n * a.d, a.d * b.d)

FSub(a, b) == FAdd(a, FNeg(b))

FMul(a, b) ==
    CASE a.k = "nan" \/ b.k = "nan"   -> NaN
      [] a.k = "inf" \/ b.k = "inf"   ->
            IF IsZero(a) \/ IsZero(b) THEN NaN ELSE Inf(Sign(a.n) * Sign(b.n))
      [] OTHER                        -> Fin(a.n * b.n, a.d * b.d)

\* IEEE division: x/0 is +-Inf for x # 0 and NaN for x = 0; nothing raises.
FDiv(a, b) ==
    CASE a.k = "nan" \/ b.k = "nan"   -> NaN
      [] a.k = "inf" /\ b.k = "inf"   -> NaN
      [] a.k = "inf"                  -> Inf(a.n * (IF b.n < 0 THEN -1 ELSE 1))
      [] b.k = "inf"                  -> Num(0)
      [] b.n = 0                      -> IF a.n = 0 THEN NaN ELSE Inf(Sign(a.n))
      [] OTHER                        -> Fin(a.n * b.d, a.d * b.n)

\* a >= b as numpy compares: false as soon as a NaN is involved.
FGe(a, b) ==
    CASE a.k = "nan" \/ b.k = "nan"   -> FALSE
      [] a.k = "inf" /\ b.k = "inf"   -> a.n >= b.n
      [] a.k = "inf"                  -> a.n > 0
      [] b.k = "inf"                  -> b.n < 0
      [] OTHER                        -> a.n * b.d >= b.n * a.d

\* ------------------------------------------------------------------------
\* Projection primitives
\* ------------------------------------------------------------------------

\* _pixels_to_3d at one pixel: intr = <<f, x0, y0>>, result <<X, Y, Z>>.
PixelsTo3dInvertedFactor(px, py, pd, intr) ==
    LET factor == FDiv(intr[1], pd)
    IN  <<FMul(FSub(px, intr[2]), factor), FMul(FSub(py, intr[3]), factor), pd>>

PixelsTo3d(px, py, pd, intr) ==
    LET factor == FDiv(pd, intr[1])
    IN  <<FMul(FSub(px, intr[2]), factor), FMul(FSub(py, intr[3]), factor), pd>>

\* _3d_to_pixels at one point p = <<X, Y, Z>>: result <<x, y>>.
ToPixelsNoPrincipal(p, intr) ==
    <<FDiv(FMul(intr[1], p[1]), p[3]), FDiv(FMul(intr[1], p[2]), p[3])>>

ToPixels(p, intr) ==
    <<FAdd(FDiv(FMul(intr[1], p[1]), p[3]), intr[2]),
      FAdd(FDiv(FMul(intr[1], p[2]), p[3]), intr[3])>>

\* ------------------------------------------------------------------------
\* Vectors, matrices and motion parameter vectors
\* ------------------------------------------------------------------------

VAdd(u, v) == <<FAdd(u[1], v[1]), FAdd(u[2], v[2]), FAdd(u[3], v[3])>>

VSub(u, v) == <<FSub(u[1], v[1]), FSub(u[2], v[2]), FSub(u[3], v[3])>>

VScale(s, v) == <<FMul(s, v[1]), FMul(s, v[2]), FMul(s, v[3])>>

\* v.dot(R.T): component j is sum_k v[k] * R.T[k][j] = sum_k v[k] * R[j][k].
RowDot(v, r) == FAdd(FAdd(FMul(v[1], r[1]), FMul(v[2], r[2])), FMul(v[3], r[3]))

DotT(v, R) == <<RowDot(v, R[1]), RowDot(v, R[2]), RowDot(v, R[3])>>

NumVec(t) == [j \in 1..Len(t) |-> Num(t[j])]

\* np.reshape(m[:9], [3, 3]): row-major.
RotOf(m) ==
    << <<Num(m[1]), Num(m[2]), Num(m[3])>>,
       <<Num(m[4]), Num(m[5]), Num(m[6])>>,
       <<Num(m[7]), Num(m[8]), Num(m[9])>> >>

\* m[9:12]
TransOf(m) == <<Num(m[10]), Num(m[11]), Num(m[12])>>

\* m[12:]
PivotOf(m) == <<Num(m[13]), Num(m[14]), Num(m[15])>>

IdentityRot == <<1, 0, 0, 0, 1, 0, 0, 0, 1>>

\* 90 degrees about the z axis.
RotZ90 == <<0, -1, 0, 1, 0, 0, 0, 0, 1>>

\* 180 degrees about the x axis.
RotX180 == <<1, 0, 0, 0, -1, 0, 0, 0, -1>>

ZeroMotion == IdentityRot \o <<0, 0, 0>> \o <<0, 0, 0>>

\* ------------------------------------------------------------------------
\* dense_flow_from_motion: inputs
\* ------------------------------------------------------------------------

\* Most objects (and most masks) one call is given.
MaxObjects == 2

\* depth[:, :, 0] as a sequence of rows; a zero is a point in the camera plane.
DepthMaps == { << <<2, 0>> >>, << <<3>>, <<1>> >> }

ObjectMotions ==
    { ZeroMotion,
      RotZ90 \o <<1, 0, 1>> \o <<1, 0, 2>>,
      RotX180 \o <<0, 1, -2>> \o <<0, 0, 1>> }

CameraMotions == { IdentityRot \o <<0, 0, 0>>, RotZ90 \o <<1, 0, 1>> }

Intrinsics == { <<1, 0, 0>>, <<2, 1, 1>> }

Height(dm) == Len(dm)

Width(dm) == Len(dm[1])

Pixels(dm) == (1..Height(dm)) \X (1..Width(dm))

\* Mask weights in [0, 1], hard and soft, listed in row-major pixel order:
\* an empty mask, a soft one that covers both pixels and a hard partial one.
MaskPatterns == { <<Num(0), Num(0)>>, <<Fin(1, 2), Num(1)>>, <<Num(0), Num(1)>> }

\* masks[i, :, :] for a depth map of two pixels.
MasksFor(dm) ==
    { [q \in Pixels(dm) |-> pat[(q[1] - 1) * Width(dm) + q[2]]] : pat \in MaskPatterns }

SeqsUpTo(S, n) == UNION { [1..k -> S] : k \in 0..n }

\* ------------------------------------------------------------------------
\* State
\* ------------------------------------------------------------------------

VARIABLES
    entry,               \* the function that was called
    pc,                  \* position of the running call
    raised,              \* the exception that ended the call, if one did
    \* _pixels_to_3d / _3d_to_pixels called on one pixel
    x, y, d,             \* the pixel and its depth
    point,               \* <<X, Y, Z>> returned by _pixels_to_3d
    pixel,               \* <<x, y>> returned by _3d_to_pixels
    \* dense_flow_from_motion
    depth, motions, masks, camera_motion, camera_intrinsics,
    P,                   \* the running point field, one <<X, Y, Z>> per pixel
    flow_i,              \* the loop index i of line 56
    flow,                \* the returned flow field, one <<dx, dy>> per pixel
    \* evaluate and _motion_errors
    gt_boxes, gt_motions, detected_motions, iou, matching_iou_threshold,
    max_overlap_gt_ids, eval_i, pred_list, target_list,
    np_acos,             \* whether the installed numpy defines np.acos
    pred, target, d_rot, d_trans, d_pivot, err_angle,
    error_dict           \* the report _motion_errors returns

projVars == <<x, y, d, point, pixel>>

flowVars == <<depth, motions, masks, camera_motion, P, flow_i, flow>>

evalVars == <<gt_boxes, gt_motions, detected_motions, iou, matching_iou_threshold,
              max_overlap_gt_ids, eval_i, pred_list, target_list>>

errVars == <<np_acos, pred, target, d_rot, d_trans, d_pivot, err_angle, error_dict>>

vars == <<entry, pc, raised, camera_intrinsics, projVars, flowVars, evalVars, errVars>>

\* The value of a variable no statement has assigned yet.
Unset == <<>>

NotRaised == [exc |-> "none", line |-> 0]

\* The exception exc raised by the statement at the given source line.
Raise(exc, line) == [exc |-> exc, line |-> line]

ProjUnused == x = Unset /\ y = Unset /\ d = Unset /\ point = Unset /\ pixel = Unset

FlowUnused ==
    /\ depth = Unset /\ motions = Unset /\ masks = Unset /\ camera_motion = Unset
    /\ P = Unset /\ flow_i = 0 /\ flow = Unset

EvalUnused ==
    /\ gt_boxes = Unset /\ gt_motions = Unset /\ detected_motions = Unset
    /\ iou = Unset /\ matching_iou_threshold = Num(0)
    /\ max_overlap_gt_ids = Unset /\ eval_i = 0
    /\ pred_list = Unset /\ target_list = Unset

ErrUnused ==
    /\ np_acos = TRUE /\ pred = Unset /\ target = Unset
    /\ d_rot = Unset /\ d_trans = Unset /\ d_pivot = Unset /\ err_angle = Unset
    /\ error_dict = Unset

\* ------------------------------------------------------------------------
\* dense_flow_from_motion
\* ------------------------------------------------------------------------

\* Lines 46-54: the pixel grid (x = column, y = row, from 0) back-projected.
BackProject(dm, intr) ==
    [q \in Pixels(dm) |->
        PixelsTo3d(Num(q[2] - 1), Num(q[1] - 1), Num(dm[q[1]][q[2]]), NumVec(intr))]

\* Line 53: points = stack([x, y]).
GridPoints(dm) == [q \in Pixels(dm) |-> <<Num(q[2] - 1), Num(q[1] - 1)>>]

\* (p - pivot).dot(rot.T) + pivot + trans, the rigid motion m of one point.
Rigid(p, m) == VAdd(VAdd(DotT(VSub(p, PivotOf(m)), RotOf(m)), PivotOf(m)), TransOf(m))

\* Line 61 with the mask ignored: every point takes the object's motion.
ApplyObjectUnmasked(field, m, mask) == [q \in DOMAIN field |-> Rigid(field[q], m)]

\* Line 61 with the motion taken from the back-projected points of the call,
\* not from the running field.
ApplyObjectToOriginal(field, m, mask) ==
    LET P0 == BackProject(depth, camera_intrinsics)
    IN  [q \in DOMAIN field |->
            VAdd(field[q], VScale(mask[q], VSub(Rigid(P0[q], m), P0[q])))]

\* Line 61: P += mask * ((P - pivot).dot(rot.T) + pivot + trans - P).
ApplyObject(field, m, mask) ==
    [q \in DOMAIN field |->
        VAdd(field[q], VScale(mask[q], VSub(Rigid(field[q], m), field[q])))]

\* Line 65: P.dot(rot_cam.T) + trans_cam.
ApplyCamera(field, cm) ==
    [q \in DOMAIN field |-> VAdd(DotT(field[q], RotOf(cm)), TransOf(cm))]

\* Lines 67-70: flow = points_t - points.
FlowOf(field, dm, intr) ==
    [q \in DOMAIN field |->
        LET t == ToPixels(field[q], NumVec(intr))
            o == GridPoints(dm)[q]
        IN  <<FSub(t[1], o[1]), FSub(t[2], o[2])>>]

FlowInit ==
    /\ entry = "dense_flow_from_motion" /\ pc = "flow_start" /\ raised = NotRaised
    /\ depth \in DepthMaps
    /\ motions \in SeqsUpTo(ObjectMotions, MaxObjects)
    /\ masks \in SeqsUpTo(MasksFor(depth), MaxObjects)
    /\ camera_motion \in CameraMotions
    /\ camera_intrinsics \in Intrinsics
    /\ P = Unset /\ flow_i = 0 /\ flow = Unset
    /\ ProjUnused /\ EvalUnused /\ ErrUnused

\* Lines 46-54.
FlowStart ==
    /\ pc = "flow_start"
    /\ P' = BackProject(depth, camera_intrinsics)
    /\ flow_i' = 0
    /\ pc' = "flow_loop"
    /\ UNCHANGED <<entry, raised, camera_intrinsics, depth, motions, masks, camera_motion,
                   flow, projVars, evalVars, errVars>>

\* Lines 56-61, one iteration; masks[i] exists.
FlowObject ==
    /\ pc = "flow_loop"
    /\ flow_i < Len(motions)
    /\ flow_i < Len(masks)
    /\ P' = ApplyObject(P, motions[flow_i + 1], masks[flow_i + 1])
    /\ flow_i' = flow_i + 1
    /\ UNCHANGED <<entry, pc, raised, camera_intrinsics, depth, motions, masks,
                   camera_motion, flow, projVars, evalVars, errVars>>

\* Line 60 of an iteration whose index is past the last mask: masks[i] raises.
FlowObjectNoMask ==
    /\ pc = "flow_loop"
    /\ flow_i < Len(motions)
    /\ flow_i >= Len(masks)
    /\ pc' = "raised"
    /\ raised' = Raise("IndexError", 60)
    /\ UNCHANGED <<entry, camera_intrinsics, flowVars, projVars, evalVars, errVars>>

\* Lines 63-71, after the last motion.
FlowFinish ==
    /\ pc = "flow_loop"
    /\ flow_i = Len(motions)
    /\ P' = ApplyCamera(P, camera_motion)
    /\ flow' = FlowOf(P', depth, camera_intrinsics)
    /\ pc' = "done"
    /\ UNCHANGED <<entry, raised, camera_intrinsics, depth, motions, masks, camera_motion,
                   flow_i, projVars, evalVars, errVars>>

FlowNext == FlowStart \/ FlowObject \/ FlowObjectNoMask \/ FlowFinish

SpecFlow == FlowInit /\ [][FlowNext]_vars

\* ------------------------------------------------------------------------
\* Claims about dense_flow_from_motion (checked under SpecFlow)
\* ------------------------------------------------------------------------

IdentityCamera == IdentityRot \o <<0, 0, 0>>

AllZeroMask(mask) == \A q \in DOMAIN mask : IsZero(mask[q])

\* The left fold of claim C5 written out: P_0 is the back-projected field and
\* P_k = P_{k-1} + mask_k * ((P_{k-1} - c_k) R_k^T + c_k + t_k - P_{k-1}).
\* One point p of P_{k-1} taken to its place in P_k.
FoldPoint(p, R, c, t, w) ==
    LET FoldCoord(j) ==
            LET moved == FAdd(FAdd(FAdd(FAdd(FMul(FSub(p[1], c[1]), R[j][1]),
                                             FMul(FSub(p[2], c[2]), R[j][2])),
                                        FMul(FSub(p[3], c[3]), R[j][3])), c[j]), t[j])
            IN  FAdd(p[j], FMul(w, FSub(moved, p[j])))
    IN  <<FoldCoord(1), FoldCoord(2), FoldCoord(3)>>

RECURSIVE LeftFold(_, _, _)
LeftFold(ms, ks, k) ==
    IF k = 0
    THEN BackProject(depth, camera_intrinsics)
    ELSE LET prev == LeftFold(ms, ks, k - 1)
             R    == RotOf(ms[k])
             c    == PivotOf(ms[k])
             t    == TransOf(ms[k])
         IN  [q \in DOMAIN prev |-> FoldPoint(prev[q], R, c, t, ks[k][q])]

\* The flow dense_flow_from_motion is to return for the objects ms with masks ks.
FlowFor(ms, ks) ==
    FlowOf(ApplyCamera(LeftFold(ms, ks, Len(ms)), camera_motion), depth, camera_intrinsics)

\* The indices among the first n objects whose mask is not zero everywhere.
RECURSIVE MaskedIn(_, _)
MaskedIn(ks, n) ==
    IF n = 0 THEN <<>>
    ELSE IF AllZeroMask(ks[n]) THEN MaskedIn(ks, n - 1)
         ELSE Append(MaskedIn(ks, n - 1), n)

Pick(sq, idx) == [j \in 1..Len(idx) |-> sq[idx[j]]]

\* C4 (as claimed): dense_flow_from_motion returns no flow field when the number
\* of motion vectors differs from the number of masks, in either direction.
C4_MismatchNeverReturns ==
    (entry = "dense_flow_from_motion" /\ pc = "done") => Len(motions) = Len(masks)

\* C5: the objects are applied to one running point field in index order: after
\* object k the field is the left fold P_k of the claim, so a later object moves
\* the points the earlier ones have already moved.
C5_RunningFieldIsLeftFold ==
    (pc \in {"flow_loop", "raised"}) => P = LeftFold(motions, masks, flow_i)

\* C5 witness: two objects with overlapping masks have been applied, and giving
\* them in the other order would have returned another flow.
C5_OrderChangesFlow ==
    /\ pc = "done" /\ Len(motions) = 2 /\ Len(masks) = 2
    /\ \E q \in DOMAIN masks[1] : ~IsZero(masks[1][q]) /\ ~IsZero(masks[2][q])
    /\ flow = FlowFor(motions, masks)
    /\ flow # FlowFor(<<motions[2], motions[1]>>, <<masks[2], masks[1]>>)

ZeroMotionCall ==
    /\ entry = "dense_flow_from_motion" /\ pc = "done"
    /\ \A k \in 1..Len(motions) : motions[k] = ZeroMotion
    /\ camera_motion = IdentityCamera

\* C6 (as claimed): with identity rotations, zero translations and pivots and
\* the identity camera motion, the flow is (0, 0) at every pixel of every depth map.
C6_ZeroFlowEverywhere ==
    ZeroMotionCall => \A q \in DOMAIN flow : flow[q] = <<Num(0), Num(0)>>

\* C6 (amended): under the same conditions the flow is (0, 0) at every pixel
\* whose depth is not zero, and (NaN, NaN) at every pixel whose depth is zero.
C6_ZeroFlowWhereDepthNonZero ==
    ZeroMotionCall =>
        \A q \in DOMAIN flow :
            flow[q] = IF depth[q[1]][q[2]] # 0 THEN <<Num(0), Num(0)>> ELSE <<NaN, NaN>>

\* C6 witness: two zero-motion objects with masks that are not empty were
\* applied, and the depth map has a pixel at depth zero and one that is not.
C6_ZeroMotionReturned ==
    /\ ZeroMotionCall /\ Len(motions) = 2
    /\ \A k \in 1..2 : ~AllZeroMask(masks[k])
    /\ \E q \in DOMAIN flow : depth[q[1]][q[2]] = 0
    /\ \E q \in DOMAIN flow : depth[q[1]][q[2]] # 0

\* C7: an object whose mask is zero at every pixel leaves the running point
\* field as it was, and the returned flow is the flow of the other objects
\* alone: it is the same for every choice of that object's 15 parameters.
C7_ZeroMaskObjectHasNoEffect ==
    /\ (pc \in {"flow_loop", "raised"}) =>
          LET idx == MaskedIn(masks, flow_i)
          IN  P = LeftFold(Pick(motions, idx), Pick(masks, idx), Len(idx))
    /\ (pc = "done") =>
          LET idx == MaskedIn(masks, Len(motions))
          IN  flow = FlowFor(Pick(motions, idx), Pick(masks, idx))

\* C7 witness: a flow was returned after an object with an all-zero mask and
\* a motion that is not the identity had been processed.
C7_ZeroMaskObjectProcessed ==
    /\ entry = "dense_flow_from_motion" /\ pc = "done"
    /\ \E k \in 1..Len(motions) :
          AllZeroMask(masks[k]) /\ motions[k] # ZeroMotion /\ motions[k][1] # 1

\* ------------------------------------------------------------------------
\* _pixels_to_3d followed by _3d_to_pixels on one pixel
\* ------------------------------------------------------------------------

PixelCoords == { Num(0), Num(1), Num(3) }

\* Depths of the data model: non-negative, zero included.
Depths == { Num(0), Fin(1, 2), Num(2), Num(7) }

\* <<f, x0, y0>> with f # 0.
ProjIntrinsics == { <<1, 0, 0>>, <<2, 1, 1>>, <<-3, 2, 0>>, <<7, 0, 5>> }

ProjInit ==
    /\ entry = "_pixels_to_3d" /\ pc = "proj_start" /\ raised = NotRaised
    /\ x \in PixelCoords /\ y \in PixelCoords /\ d \in Depths
    /\ camera_intrinsics \in ProjIntrinsics
    /\ point = Unset /\ pixel = Unset
    /\ FlowUnused /\ EvalUnused /\ ErrUnused

\* Lines 12-18.
ProjInverse ==
    /\ pc = "proj_start"
    /\ point' = PixelsTo3d(x, y, d, NumVec(camera_intrinsics))
    /\ pc' = "proj_point"
    /\ UNCHANGED <<entry, raised, camera_intrinsics, x, y, d, pixel,
                   flowVars, evalVars, errVars>>

\* Lines 21-28.
ProjForward ==
    /\ pc = "proj_point"
    /\ pixel' = ToPixels(point, NumVec(camera_intrinsics))
    /\ pc' = "done"
    /\ UNCHANGED <<entry, raised, camera_intrinsics, x, y, d, point,
                   flowVars, evalVars, errVars>>

ProjNext == ProjInverse \/ ProjForward

SpecProj == ProjInit /\ [][ProjNext]_vars

\* C8 (as claimed): for every pixel, every depth and every intrinsics with
\* f # 0, projecting the back-projected point returns the pixel.
C8_RoundTripEveryDepth ==
    (entry = "_pixels_to_3d" /\ pc = "done") => pixel = <<x, y>>

\* C8 (amended): the round trip returns the pixel when the depth is not zero,
\* and (NaN, NaN) when it is zero.
C8_RoundTripNonZeroDepth ==
    (entry = "_pixels_to_3d" /\ pc = "done") => pixel = IF IsZero(d) THEN <<NaN, NaN>> ELSE <<x, y>>

\* C8 witness: the round trip was made for a pixel off the principal point, at
\* a depth that is not zero.
C8_RoundTripMade ==
    /\ entry = "_pixels_to_3d" /\ pc = "done" /\ ~IsZero(d)
    /\ x # Num(camera_intrinsics[2]) /\ y # Num(camera_intrinsics[3])
    /\ camera_intrinsics[1] # 1

\* ------------------------------------------------------------------------
\* evaluate: inputs
\* ------------------------------------------------------------------------

\* Most detected boxes, ground-truth boxes, and rows of a direct call of
\* _motion_errors.
MaxDet == 2

MaxGt == 2

MaxPairs == 2

\* What np_box_list_ops.iou may answer for one pair of boxes.
IouVals == { Fin(3, 10), Fin(6, 10), Fin(9, 10) }

\* The default .5 of line 142, and a threshold some IoU equals.
Thresholds == { Fin(1, 2), Fin(9, 10) }

\* Row j of gt_boxes: four coordinates.
GtBoxRow(j) == <<j - 1, j - 1, j, j>>

\* Row j of gt_motions and row i of detected_motions: 15 values each, no two
\* rows of the three arrays alike.
GtMotionRow(j) == RotZ90 \o <<3 * j, 0, 0>> \o <<0, 0, 0>>

DetectedMotionRow(i) == IdentityRot \o <<0, 4 * i, 0>> \o <<0, 0, i>>

\* Rows a direct caller hands to _motion_errors.
MotionRows ==
    { ZeroMotion,
      RotZ90 \o <<3, 0, 0>> \o <<0, 4, 0>>,
      RotX180 \o <<3, 4, 0>> \o <<0, 0, 0>> }

\* ------------------------------------------------------------------------
\* evaluate
\* ------------------------------------------------------------------------

\* np.argmax of one row when ties go to the highest index.
ArgMaxLast(row) ==
    CHOOSE j \in 1..Len(row) :
        /\ \A k \in 1..Len(row) : FGe(row[j], row[k])
        /\ \A k \in (j + 1)..Len(row) : row[k] # row[j]

\* np.argmax of one row of iou (line 147): the first index of a largest value.
\* Indices count from 1 here and from 0 in numpy.
ArgMax(row) ==
    CHOOSE j \in 1..Len(row) :
        /\ \A k \in 1..Len(row) : FGe(row[j], row[k])
        /\ \A k \in 1..(j - 1) : row[k] # row[j]

\* Line 153: iou[i, gt_id] >= matching_iou_threshold.
Matches(v, threshold) == FGe(v, threshold)

\* Lines 156-157: np.stack raises ValueError when given no arrays.
StackRaises(lst) == Len(lst) = 0

EvalInit ==
    /\ entry = "evaluate" /\ pc = "eval_start" /\ raised = NotRaised
    /\ \E nd \in 0..MaxDet, ng \in 0..MaxGt :
          /\ detected_motions = [i \in 1..nd |-> DetectedMotionRow(i)]
          /\ gt_boxes = [j \in 1..ng |-> GtBoxRow(j)]
          /\ gt_motions = [j \in 1..ng |-> GtMotionRow(j)]
          /\ iou \in [1..nd -> [1..ng -> IouVals]]
    /\ matching_iou_threshold \in Thresholds
    /\ max_overlap_gt_ids = Unset /\ eval_i = 0
    /\ pred_list = Unset /\ target_list = Unset
    /\ np_acos \in BOOLEAN
    /\ pred = Unset /\ target = Unset
    /\ d_rot = Unset /\ d_trans = Unset /\ d_pivot = Unset /\ err_angle = Unset
    /\ error_dict = Unset
    /\ camera_intrinsics = Unset
    /\ ProjUnused /\ FlowUnused

\* Lines 143-150 with at least one ground-truth box.
EvalArgmax ==
    /\ pc = "eval_start"
    /\ Len(gt_boxes) > 0
    /\ max_overlap_gt_ids' = [i \in 1..Len(iou) |-> ArgMax(iou[i])]
    /\ pred_list' = <<>>
    /\ target_list' = <<>>
    /\ eval_i' = 0
    /\ pc' = "eval_loop"
    /\ UNCHANGED <<entry, raised, camera_intrinsics, gt_boxes, gt_motions,
                   detected_motions, iou, matching_iou_threshold,
                   projVars, flowVars, errVars>>

\* Line 147 with no ground-truth box: np.argmax along an axis of length 0.
EvalArgmaxEmpty ==
    /\ pc = "eval_start"
    /\ Len(gt_boxes) = 0
    /\ pc' = "raised"
    /\ raised' = Raise("ValueError", 147)
    /\ UNCHANGED <<entry, camera_intrinsics, evalVars, projVars, flowVars, errVars>>

\* Lines 151-155, one iteration whose detection passes the threshold.
EvalMatch ==
    /\ pc = "eval_loop"
    /\ eval_i < Len(iou)
    /\ LET i     == eval_i + 1
           gt_id == max_overlap_gt_ids[i]
       IN  /\ Matches(iou[i][gt_id], matching_iou_threshold)
           /\ pred_list' = Append(pred_list, detected_motions[i])
           /\ target_list' = Append(target_list, gt_boxes[gt_id])
    /\ eval_i' = eval_i + 1
    /\ UNCHANGED <<entry, pc, raised, camera_intrinsics, gt_boxes, gt_motions,
                   detected_motions, iou, matching_iou_threshold,
                   max_overlap_gt_ids, projVars, flowVars, errVars>>

\* Lines 151-153, one iteration whose detection does not pass.
EvalDrop ==
    /\ pc = "eval_loop"
    /\ eval_i < Len(iou)
    /\ LET i     == eval_i + 1
           gt_id == max_overlap_gt_ids[i]
       IN  ~Matches(iou[i][gt_id], matching_iou_threshold)
    /\ eval_i' = eval_i + 1
    /\ UNCHANGED <<entry, pc, raised, camera_intrinsics, gt_boxes, gt_motions,
                   detected_motions, iou, matching_iou_threshold,
                   max_overlap_gt_ids, pred_list, target_list,
                   projVars, flowVars, errVars>>

\* Line 156 after the loop, with nothing matched.
EvalStackEmpty ==
    /\ pc = "eval_loop"
    /\ eval_i = Len(iou)
    /\ StackRaises(pred_list)
    /\ pc' = "raised"
    /\ raised' = Raise("ValueError", 156)
    /\ UNCHANGED <<entry, camera_intrinsics, evalVars, projVars, flowVars, errVars>>

\* Lines 156-158 after the loop: the lists are stacked and _motion_errors is
\* entered.
EvalStack ==
    /\ pc = "eval_loop"
    /\ eval_i = Len(iou)
    /\ ~StackRaises(pred_list)
    /\ pred' = pred_list
    /\ target' = target_list
    /\ pc' = "me_start"
    /\ UNCHANGED <<entry, raised, camera_intrinsics, evalVars, projVars, flowVars,
                   np_acos, d_rot, d_trans, d_pivot, err_angle, error_dict>>

\* ------------------------------------------------------------------------
\* _motion_errors
\* ------------------------------------------------------------------------

Min(a, b) == IF a < b THEN a ELSE b

\* np.transpose(rot, [0, 2, 1]) of one matrix.
Transpose(R) ==
    << <<R[1][1], R[2][1], R[3][1]>>,
       <<R[1][2], R[2][2], R[3][2]>>,
       <<R[1][3], R[2][3], R[3][3]>> >>

\* A @ B of two 3x3 matrices.
MatMul(A, B) ==
    LET BT == Transpose(B)
    IN  << <<RowDot(A[1], BT[1]), RowDot(A[1], BT[2]), RowDot(A[1], BT[3])>>,
           <<RowDot(A[2], BT[1]), RowDot(A[2], BT[2]), RowDot(A[2], BT[3])>>,
           <<RowDot(A[3], BT[1]), RowDot(A[3], BT[2]), RowDot(A[3], BT[3])>> >>

Trace(M) == FAdd(FAdd(M[1][1], M[2][2]), M[3][3])

\* np.clip(v, lo, hi)
Clip(v, lo, hi) ==
    IF v.k = "nan" THEN NaN
    ELSE IF ~FGe(v, lo) THEN lo
    ELSE IF ~FGe(hi, v) THEN hi
    ELSE v

\* np.acos, in units of pi, at the cosines the rotations of the model produce;
\* NaN outside [-1, 1].
Acos(c) ==
    CASE c.k = "nan"                          -> NaN
      [] ~FGe(c, Num(-1)) \/ ~FGe(Num(1), c)  -> NaN
      [] c = Num(1)                           -> Num(0)
      [] c = Fin(1, 2)                        -> Fin(1, 3)
      [] c = Num(0)                           -> Fin(1, 2)
      [] c = Fin(-1, 2)                       -> Fin(2, 3)
      [] c = Num(-1)                          -> Num(1)

\* Lines 102-103, for one matrix.
RotationAngle(M) ==
    Acos(Clip(FDiv(FSub(Trace(M), Num(1)), Num(2)), Num(-1), Num(1)))

\* The number of values np.reshape(arr[:, 0:9], [-1, 3, 3]) is given.
SliceSize(arr) == IF Len(arr) = 0 THEN 0 ELSE Len(arr) * Min(Len(arr[1]), 9)

\* The first of lines 105-114 that raises for these arguments, 0 if none does:
\* a reshape to [-1, 3, 3] needs a multiple of 9 values, and rot_T @ gt_rot
\* needs as many matrices on both sides (or one on a side).
ShapeErrorLine(prd, tgt) ==
    LET a == SliceSize(prd) \div 9
        b == SliceSize(tgt) \div 9
    IN  IF SliceSize(prd) % 9 # 0 THEN 105
        ELSE IF SliceSize(tgt) % 9 # 0 THEN 109
        ELSE IF ~(a = b \/ a = 1 \/ b = 1) THEN 114
        ELSE 0

\* np.squeeze of an array of shape [M, 3, 1]: every axis of length 1 goes, so a
\* single row comes out as one vector of shape [3].
Squeeze(rows) == IF Len(rows) = 1 THEN rows[1] ELSE rows

\* A direct call of _motion_errors with 0..MaxPairs rows of 15 values.
MeInit ==
    /\ entry = "_motion_errors" /\ pc = "me_start" /\ raised = NotRaised
    /\ \E m \in 0..MaxPairs :
          /\ pred \in [1..m -> MotionRows]
          /\ target \in [1..m -> MotionRows]
    /\ np_acos \in BOOLEAN
    /\ d_rot = Unset /\ d_trans = Unset /\ d_pivot = Unset /\ err_angle = Unset
    /\ error_dict = Unset
    /\ camera_intrinsics = Unset
    /\ ProjUnused /\ FlowUnused /\ EvalUnused

\* Lines 105-114 when a reshape or the matrix product does not fit.
MeShapeError ==
    /\ pc = "me_start"
    /\ ShapeErrorLine(pred, target) # 0
    /\ pc' = "raised"
    /\ raised' = Raise("ValueError", ShapeErrorLine(pred, target))
    /\ UNCHANGED <<entry, camera_intrinsics, evalVars, projVars, flowVars, errVars>>

\* Lines 105-116.
MeRelative ==
    /\ pc = "me_start"
    /\ ShapeErrorLine(pred, target) = 0
    /\ d_rot' = [k \in 1..Len(pred) |->
                    MatMul(Transpose(RotOf(pred[k])), RotOf(target[k]))]
    /\ d_trans' = Squeeze([k \in 1..Len(pred) |->
                    DotT(VSub(TransOf(target[k]), TransOf(pred[k])),
                         Transpose(RotOf(pred[k])))])
    /\ d_pivot' = [k \in 1..Len(pred) |-> VSub(PivotOf(target[k]), PivotOf(pred[k]))]
    /\ pc' = "me_angle"
    /\ UNCHANGED <<entry, raised, camera_intrinsics, evalVars, projVars, flowVars,
                   np_acos, pred, target, err_angle, error_dict>>

\* Line 118 under a numpy that defines np.acos (2.0 and later).
MeAngle ==
    /\ pc = "me_angle"
    /\ np_acos
    /\ err_angle' = [k \in 1..Len(d_rot) |-> RotationAngle(d_rot[k])]
    /\ pc' = "me_norm"
    /\ UNCHANGED <<entry, raised, camera_intrinsics, evalVars, projVars, flowVars,
                   np_acos, pred, target, d_rot, d_trans, d_pivot, error_dict>>

\* Line 118 under a numpy that does not define np.acos (before 2.0).
MeAngleNoAcos ==
    /\ pc = "me_angle"
    /\ ~np_acos
    /\ pc' = "raised"
    /\ raised' = Raise("AttributeError", 103)
    /\ UNCHANGED <<entry, camera_intrinsics, evalVars, projVars, flowVars, errVars>>

\* Line 119: numpy has no attribute norm (the norm is numpy.linalg.norm), so
\* the statement raises for every argument; lines 120-138 do not run.
MeNorm ==
    /\ pc = "me_norm"
    /\ pc' = "raised"
    /\ raised' = Raise("AttributeError", 119)
    /\ UNCHANGED <<entry, camera_intrinsics, evalVars, projVars, flowVars, errVars>>

EvalNext ==
    \/ EvalArgmax \/ EvalArgmaxEmpty \/ EvalMatch \/ EvalDrop
    \/ EvalStackEmpty \/ EvalStack
    \/ MeShapeError \/ MeRelative \/ MeAngle \/ MeAngleNoAcos \/ MeNorm

EvalOrMeInit == EvalInit \/ MeInit

SpecEval == EvalOrMeInit /\ [][EvalNext]_vars

\* ------------------------------------------------------------------------
\* Claims about evaluate and _motion_errors (checked under SpecEval)
\* ------------------------------------------------------------------------

\* The ground-truth boxes whose IoU with detection i is the largest of its row.
Maximisers(i) ==
    { j \in 1..Len(iou[i]) : \A k \in 1..Len(iou[i]) : FGe(iou[i][j], iou[i][k]) }

\* j* of the claims: the lowest index among them.
BestGt(i) == CHOOSE j \in Maximisers(i) : \A k \in Maximisers(i) : j <= k

\* The pairs (i, j*) of the first n detections with M[i, j*] >= threshold, in
\* increasing i.
RECURSIVE ExpectedPairs(_)
ExpectedPairs(n) ==
    IF n = 0 THEN <<>>
    ELSE IF FGe(iou[n][BestGt(n)], matching_iou_threshold)
         THEN Append(ExpectedPairs(n - 1), <<n, BestGt(n)>>)
         ELSE ExpectedPairs(n - 1)

IndexIn(arr, row) ==
    IF \E i \in 1..Len(arr) : arr[i] = row
    THEN CHOOSE i \in 1..Len(arr) : arr[i] = row
    ELSE 0

\* The pairs the two lists hold: the detection whose motion row stands in
\* pred_list and the ground-truth box whose row stands in target_list
\* (index 0: a row of neither array).
EmittedPairs ==
    [k \in 1..Len(pred_list) |->
        <<IndexIn(detected_motions, pred_list[k]), IndexIn(gt_boxes, target_list[k])>>]

\* The loop of evaluate has been entered.
InOrPastLoop == entry = "evaluate" /\ pc # "eval_start" /\ raised.line # 147

\* C1: after the first eval_i detections the matched pairs are exactly the
\* pairs (i, j*) with j* the lowest index maximising M[i, j] and
\* M[i, j*] >= threshold, in increasing i, each detection at most once, with no
\* deduplication of ground-truth boxes.
C1_MatchedPairsAreBestAboveThreshold ==
    InOrPastLoop =>
        /\ Len(target_list) = Len(pred_list)
        /\ EmittedPairs = ExpectedPairs(eval_i)
        /\ \A k, l \in 1..Len(pred_list) : k < l => EmittedPairs[k][1] < EmittedPairs[l][1]

\* C1 witness: of two detections the first was dropped and the second, whose
\* best IoU equals the threshold and is reached by both ground-truth boxes,
\* was matched to the first box.
C1_DropAndTieAtThreshold ==
    /\ InOrPastLoop /\ eval_i = 2 /\ Len(gt_boxes) = 2
    /\ ~FGe(iou[1][1], matching_iou_threshold) /\ ~FGe(iou[1][2], matching_iou_threshold)
    /\ iou[2][1] = matching_iou_threshold /\ iou[2][2] = matching_iou_threshold
    /\ EmittedPairs = << <<2, 1>> >>

\* C2 (as claimed): row k of the predictions is detected_motions[i] and row k
\* of the targets is gt_motions[j*] for the k-th matched pair (i, j*).
C2_TargetRowsAreGtMotions ==
    InOrPastLoop =>
        /\ Len(target_list) = Len(pred_list)
        /\ Len(pred_list) = Len(ExpectedPairs(eval_i))
        /\ \A k \in 1..Len(pred_list) :
              /\ pred_list[k] = detected_motions[ExpectedPairs(eval_i)[k][1]]
              /\ target_list[k] = gt_motions[ExpectedPairs(eval_i)[k][2]]

\* No detection reaches the threshold with any ground-truth box.
NoSurvivor ==
    \A i \in 1..Len(iou) : \A j \in 1..Len(iou[i]) :
        ~FGe(iou[i][j], matching_iou_threshold)

\* The failures of evaluate on an empty set of matches: np.argmax over no
\* ground-truth box (line 147) and np.stack of an empty list (line 156).
EmptyMatchSetRaised ==
    raised \in { Raise("ValueError", 147), Raise("ValueError", 156) }

Ended == pc \in {"done", "raised"}

\* C3 (as claimed): a call that has zero matched pairs, of evaluate or of
\* _motion_errors itself, ends in the empty-match-set failure and returns no
\* report.
C3_ZeroPairsRaiseEmptyMatchSet ==
    (/\ Ended
     /\ \/ entry = "evaluate" /\ NoSurvivor
        \/ entry = "_motion_errors" /\ Len(pred) = 0)
    => (pc = "raised" /\ EmptyMatchSetRaised)

\* C3, the part evaluate keeps: when no detection survives the threshold,
\* evaluate never enters _motion_errors and never returns: it ends with the
\* ValueError of line 147 or of line 156.
C3_NoSurvivorFailsInEvaluate ==
    (entry = "evaluate" /\ NoSurvivor) =>
        /\ pc \in {"eval_start", "eval_loop", "raised"}
        /\ pc = "raised" => EmptyMatchSetRaised

Mean(vals) ==
    LET RECURSIVE Sum(_)
        Sum(n) == IF n = 0 THEN Num(0) ELSE FAdd(Sum(n - 1), vals[n])
    IN  FDiv(Sum(Len(vals)), Num(Len(vals)))

ReportKeys == {"mRot", "mTrans", "mPivot", "mRelRot", "mRelTrans"}

\* A call of _motion_errors with at least one pair has ended.
PairsCallEnded == entry = "_motion_errors" /\ Len(pred) >= 1 /\ Ended

\* C9 (as claimed): for M >= 1 pairs _motion_errors returns a report with
\* exactly the five keys, each a plain scalar that is the mean over the pairs
\* of its per-pair error (mRot: the mean of angle(dR)).
C9_ReturnsTheFiveMeans ==
    PairsCallEnded =>
        /\ pc = "done"
        /\ DOMAIN error_dict = ReportKeys
        /\ \A key \in ReportKeys : error_dict[key].k \in {"fin", "inf", "nan"}
        /\ error_dict["mRot"] = Mean(err_angle)

\* C10 (as claimed): for M >= 1 valid pairs every metric _motion_errors
\* returns is a number >= 0, and the argument of acos lies in [-1, 1].
C10_MetricsNonNegative ==
    /\ (entry = "_motion_errors" /\ pc = "me_norm") =>
          \A k \in 1..Len(d_rot) :
              LET c == Clip(FDiv(FSub(Trace(d_rot[k]), Num(1)), Num(2)), Num(-1), Num(1))
              IN  FGe(c, Num(-1)) /\ FGe(Num(1), c)
    /\ PairsCallEnded =>
          /\ pc = "done"
          /\ \A key \in ReportKeys : FGe(error_dict[key], Num(0))

====
